---- MODULE Spec2Model ----
(***************************************************************************)
(* Model of wgpu-types (src/wgpu-types/src/lib.rs): the capability model   *)
(* (Backend, BackendBit, Features, Limits), the format metadata tables     *)
(* (VertexFormat::size, TextureComponentType::from) and the label          *)
(* projection map_label of the label-carrying descriptors.                 *)
(*                                                                         *)
(* The crate is a library of value types and pure functions.  Two state    *)
(* machines exercise it:                                                   *)
(*   Spec       a client calls one function, uses the result and calls     *)
(*              again; `call` holds the function, its arguments and the    *)
(*              value it returned;                                         *)
(*   SpecLabel  a client builds a descriptor and applies map_label to it,  *)
(*              and again to the projected descriptor;                     *)
(*   SpecConc   several threads evaluate the predicates and projections on *)
(*              the same shared values, one field read at a time.          *)
(***************************************************************************)
EXTENDS Integers, Naturals, Sequences, FiniteSets, TLC

VARIABLES
    call,     \* the last library call: [op, <arguments>, ret]
    stage,    \* SpecLabel: "none" | "built" | "mapped" | "remapped"
    kind,     \* SpecLabel: descriptor type of the session
    desc0,    \* SpecLabel: the descriptor as the client built it
    desc,     \* SpecLabel: the descriptor the client holds (map_label borrows it as &self)
    fun1,     \* SpecLabel: label function of the first map_label
    out1,     \* SpecLabel: descriptor returned by the first map_label
    fun2,     \* SpecLabel: label function of the second map_label
    out2,     \* SpecLabel: descriptor returned by the second map_label
    shared,   \* SpecConc: the values every thread borrows (&self)
    shared0,  \* SpecConc: the shared values as they were built
    threads   \* SpecConc: per thread [pc, op, fun, locals, ret]

labelVars == <<stage, kind, desc0, desc, fun1, out1, fun2, out2>>
concVars == <<shared, shared0, threads>>
vars == <<call, stage, kind, desc0, desc, fun1, out1, fun2, out2,
          shared, shared0, threads>>

----------------------------------------------------------------------------
(* Integer helpers.  u32 values of this model stay far below 2^31, so the  *)
(* bitwise operators are computed bit by bit on naturals.                  *)

RECURSIVE BitAnd(_, _)
BitAnd(x, y) ==
    IF x = 0 \/ y = 0 THEN 0
    ELSE (x % 2) * (y % 2) + 2 * BitAnd(x \div 2, y \div 2)

RECURSIVE BitOr(_, _)
BitOr(x, y) ==
    IF x = 0 THEN y
    ELSE IF y = 0 THEN x
    ELSE (IF x % 2 = 1 \/ y % 2 = 1 THEN 1 ELSE 0) + 2 * BitOr(x \div 2, y \div 2)

\* x << n on u32; n <= 6 here, so nothing is shifted out.
Shl(x, n) == x * (2 ^ n)

\* The elements of a sequence.
Range(seq) == {seq[i] : i \in 1..Len(seq)}

\* Number of one bits of x.
RECURSIVE PopCount(_)
PopCount(x) == IF x = 0 THEN 0 ELSE (x % 2) + PopCount(x \div 2)

----------------------------------------------------------------------------
(* Backend and BackendBit                                                  *)

Backend == {"Empty", "Vulkan", "Metal", "Dx12", "Dx11", "Gl", "BrowserWebGpu"}

\* The discriminants with Gl given the value of Dx11.
BackendTag_GlAsDx11(b) ==
    CASE b = "Empty" -> 0
      [] b = "Vulkan" -> 1
      [] b = "Metal" -> 2
      [] b = "Dx12" -> 3
      [] b = "Dx11" -> 4
      [] b = "Gl" -> 4
      [] b = "BrowserWebGpu" -> 6

\* `backend as u32`: the discriminants of enum Backend.
BackendTag(b) ==
    CASE b = "Empty" -> 0
      [] b = "Vulkan" -> 1
      [] b = "Metal" -> 2
      [] b = "Dx12" -> 3
      [] b = "Dx11" -> 4
      [] b = "Gl" -> 5
      [] b = "BrowserWebGpu" -> 6

VULKAN == Shl(1, BackendTag("Vulkan"))
GL == Shl(1, BackendTag("Gl"))
METAL == Shl(1, BackendTag("Metal"))
DX12 == Shl(1, BackendTag("Dx12"))
DX11 == Shl(1, BackendTag("Dx11"))
BROWSER_WEBGPU == Shl(1, BackendTag("BrowserWebGpu"))
\* PRIMARY without the browser backend.
PRIMARY_NoBrowser == BitOr(BitOr(VULKAN, METAL), DX12)

PRIMARY == BitOr(BitOr(VULKAN, METAL), BitOr(DX12, BROWSER_WEBGPU))
\* SECONDARY with VULKAN in the place of GL.
SECONDARY_VulkanForGl == BitOr(VULKAN, DX11)

SECONDARY == BitOr(GL, DX11)

\* The flags the bitflags! block of BackendBit declares, in declaration order.
BackendBitFlags == <<VULKAN, GL, METAL, DX12, DX11, BROWSER_WEBGPU, PRIMARY, SECONDARY>>

\* The constants of BackendBit by name.
BackendBitNames ==
    {"VULKAN", "GL", "METAL", "DX12", "DX11", "BROWSER_WEBGPU", "PRIMARY",
     "SECONDARY"}

BackendBitNamed(name) ==
    CASE name = "VULKAN" -> VULKAN
      [] name = "GL" -> GL
      [] name = "METAL" -> METAL
      [] name = "DX12" -> DX12
      [] name = "DX11" -> DX11
      [] name = "BROWSER_WEBGPU" -> BROWSER_WEBGPU
      [] name = "PRIMARY" -> PRIMARY
      [] name = "SECONDARY" -> SECONDARY

RECURSIVE OrAll(_)
OrAll(flags) == IF flags = <<>> THEN 0 ELSE BitOr(Head(flags), OrAll(Tail(flags)))

\* BackendBit::all(): the union of every declared flag.
BackendBit_all == OrAll(BackendBitFlags)

None == [some |-> FALSE, bits |-> 0]
Some(bits) == [some |-> TRUE, bits |-> bits]

\* BackendBit::from_bits (bitflags): None when a bit outside all() is set.
\* bits & !all is computed as bits - (bits & all).
BackendBit_from_bits(bits) ==
    IF bits - BitAnd(bits, BackendBit_all) = 0 THEN Some(bits) ELSE None

\* Option::unwrap: panics on None.
unwrap(opt) ==
    IF opt.some THEN [panicked |-> FALSE, bits |-> opt.bits]
    ELSE [panicked |-> TRUE, bits |-> 0]

\* impl From<Backend> for BackendBit
BackendBit_from(backend) == unwrap(BackendBit_from_bits(Shl(1, BackendTag(backend))))

----------------------------------------------------------------------------
(* Features: bitflags over u64                                             *)

\* A u64 written as its four 16-bit groups, most significant first, as the
\* source writes its literals: 0x0000_0000_0080_0000 is U64(0, 0, 128, 0).
U64(h3, h2, h1, h0) == <<h3, h2, h1, h0>>

\* self.bits & other.bits on u64
U64And(a, b) == [i \in 1..4 |-> BitAnd(a[i], b[i])]

\* self.bits | other.bits on u64
U64Or(a, b) == [i \in 1..4 |-> BitOr(a[i], b[i])]

\* Bit i (0 = least significant) of a u64.
U64Bit(x, i) == (x[4 - (i \div 16)] \div (2 ^ (i % 16))) % 2

Features_empty == U64(0, 0, 0, 0)
DEPTH_CLAMPING == U64(0, 0, 0, 1)
MAPPABLE_PRIMARY_BUFFERS == U64(0, 0, 1, 0)
SAMPLED_TEXTURE_BINDING_ARRAY == U64(0, 0, 2, 0)
SAMPLED_TEXTURE_ARRAY_DYNAMIC_INDEXING == U64(0, 0, 4, 0)
SAMPLED_TEXTURE_ARRAY_NON_UNIFORM_INDEXING == U64(0, 0, 8, 0)
UNSIZED_BINDING_ARRAY == U64(0, 0, 16, 0)
MULTI_DRAW_INDIRECT == U64(0, 0, 32, 0)
MULTI_DRAW_INDIRECT_COUNT == U64(0, 0, 64, 0)
PUSH_CONSTANTS == U64(0, 0, 128, 0)
ALL_WEBGPU == U64(0, 0, 0, 65535)
\* ALL_NATIVE written with one group of digits too few.
ALL_NATIVE_Upper32 == U64(65535, 65535, 0, 0)

ALL_NATIVE == U64(65535, 65535, 65535, 0)

\* The flags the bitflags! block of Features declares, in declaration order.
FeaturesFlags ==
    <<DEPTH_CLAMPING, MAPPABLE_PRIMARY_BUFFERS, SAMPLED_TEXTURE_BINDING_ARRAY,
      SAMPLED_TEXTURE_ARRAY_DYNAMIC_INDEXING,
      SAMPLED_TEXTURE_ARRAY_NON_UNIFORM_INDEXING, UNSIZED_BINDING_ARRAY,
      MULTI_DRAW_INDIRECT, MULTI_DRAW_INDIRECT_COUNT, PUSH_CONSTANTS,
      ALL_WEBGPU, ALL_NATIVE>>

\* contains answers whether the two sets share a bit (that is `intersects`).
Features_contains_Intersects(self, other) == U64And(self, other) # Features_empty

\* contains with its operands exchanged: (self.bits & other.bits) == self.bits
Features_contains_Reversed(self, other) == U64And(self, other) = self

\* Features::contains (bitflags): (self.bits & other.bits) == other.bits
Features_contains(self, other) == U64And(self, other) = other

\* Feature sets a client can build: the empty set, a declared flag, or the
\* union of two declared flags.
FeaturesSingles == {Features_empty} \cup Range(FeaturesFlags)
FeaturesPool == {U64Or(a, b) : a, b \in FeaturesSingles}

----------------------------------------------------------------------------
(* Limits                                                                  *)

\* The fields of struct Limits, in declaration order.
LimitsFields ==
    <<"max_bind_groups",
      "max_dynamic_uniform_buffers_per_pipeline_layout",
      "max_dynamic_storage_buffers_per_pipeline_layout",
      "max_sampled_textures_per_shader_stage",
      "max_samplers_per_shader_stage",
      "max_storage_buffers_per_shader_stage",
      "max_storage_textures_per_shader_stage",
      "max_uniform_buffers_per_shader_stage",
      "max_uniform_buffer_binding_size",
      "max_push_constant_size">>

\* The default each field's doc comment states ("Defaults to n").
Limits_documented ==
    [max_bind_groups |-> 4,
     max_dynamic_uniform_buffers_per_pipeline_layout |-> 8,
     max_dynamic_storage_buffers_per_pipeline_layout |-> 4,
     max_sampled_textures_per_shader_stage |-> 16,
     max_samplers_per_shader_stage |-> 16,
     max_storage_buffers_per_shader_stage |-> 4,
     max_storage_textures_per_shader_stage |-> 4,
     max_uniform_buffers_per_shader_stage |-> 12,
     max_uniform_buffer_binding_size |-> 16384,
     max_push_constant_size |-> 0]

\* A default() whose sampler count repeats the storage buffer count.
Limits_default_SamplersAsStorage ==
    [Limits_documented EXCEPT
        !.max_samplers_per_shader_stage =
            Limits_documented.max_storage_buffers_per_shader_stage]

\* impl Default for Limits
Limits_default ==
    [max_bind_groups |-> 4,
     max_dynamic_uniform_buffers_per_pipeline_layout |-> 8,
     max_dynamic_storage_buffers_per_pipeline_layout |-> 4,
     max_sampled_textures_per_shader_stage |-> 16,
     max_samplers_per_shader_stage |-> 16,
     max_storage_buffers_per_shader_stage |-> 4,
     max_storage_textures_per_shader_stage |-> 4,
     max_uniform_buffers_per_shader_stage |-> 12,
     max_uniform_buffer_binding_size |-> 16384,
     max_push_constant_size |-> 0]

\* #[derive(PartialOrd, Ord)] on a struct: the fields are compared in
\* declaration order and the first pair that differs decides.
RECURSIVE Limits_cmp_from(_, _, _)
Limits_cmp_from(i, self, other) ==
    IF i > Len(LimitsFields) THEN "Equal"
    ELSE LET f == LimitsFields[i] IN
         IF self[f] < other[f] THEN "Less"
         ELSE IF self[f] > other[f] THEN "Greater"
         ELSE Limits_cmp_from(i + 1, self, other)

\* Ord::cmp of Limits
Limits_cmp(self, other) == Limits_cmp_from(1, self, other)

\* PartialOrd::le of Limits: `requested <= advertised`
Limits_le(self, other) == Limits_cmp(self, other) # "Greater"

\* Largest amount by which the model raises a limit over its default.
MaxLimitDelta == 2

\* Limits a client or an adapter can hold in the model: the defaults, with
\* one field raised.
LimitsPool ==
    {[Limits_default EXCEPT ![f] = @ + d] :
        f \in Range(LimitsFields), d \in 0..MaxLimitDelta}

----------------------------------------------------------------------------
(* Device-request negotiation.  The crate documents it (struct Features,   *)
(* struct Limits, DeviceDescriptor) and leaves it to device creation in    *)
(* wgpu-core: it is modelled from the specification (4.1), on top of this  *)
(* crate's own Features::contains and Limits ordering.                     *)

request_device(advFeatures, advLimits, reqFeatures, reqLimits) ==
    IF Features_contains(advFeatures, reqFeatures) /\ Limits_le(reqLimits, advLimits)
    THEN "Device"
    ELSE "ContractViolation"

----------------------------------------------------------------------------
(* Format metadata tables                                                  *)

\* A Rust `match`: the value of the first arm whose pattern holds x.  The
\* source's matches are exhaustive; an x no arm holds is reported, not hidden.
RECURSIVE Match(_, _)
Match(arms, x) ==
    IF arms = <<>> THEN [matched |-> FALSE]
    ELSE IF x \in Head(arms).pat THEN [matched |-> TRUE, val |-> Head(arms).val]
    ELSE Match(Tail(arms), x)

\* enum VertexFormat, in declaration order (discriminants 0..29).
VertexFormatVariants ==
    <<"Uchar2", "Uchar4", "Char2", "Char4", "Uchar2Norm", "Uchar4Norm",
      "Char2Norm", "Char4Norm", "Ushort2", "Ushort4", "Short2", "Short4",
      "Ushort2Norm", "Ushort4Norm", "Short2Norm", "Short4Norm", "Half2",
      "Half4", "Float", "Float2", "Float3", "Float4", "Uint", "Uint2",
      "Uint3", "Uint4", "Int", "Int2", "Int3", "Int4">>

VertexFormat == Range(VertexFormatVariants)

\* The name of each VertexFormat variant, as component type and count
\* (no digit: 1; the Norm suffix does not change the storage).
VertexFormatParts ==
    [Uchar2 |-> [component |-> "Uchar", count |-> 2],
     Uchar4 |-> [component |-> "Uchar", count |-> 4],
     Char2 |-> [component |-> "Char", count |-> 2],
     Char4 |-> [component |-> "Char", count |-> 4],
     Uchar2Norm |-> [component |-> "Uchar", count |-> 2],
     Uchar4Norm |-> [component |-> "Uchar", count |-> 4],
     Char2Norm |-> [component |-> "Char", count |-> 2],
     Char4Norm |-> [component |-> "Char", count |-> 4],
     Ushort2 |-> [component |-> "Ushort", count |-> 2],
     Ushort4 |-> [component |-> "Ushort", count |-> 4],
     Short2 |-> [component |-> "Short", count |-> 2],
     Short4 |-> [component |-> "Short", count |-> 4],
     Ushort2Norm |-> [component |-> "Ushort", count |-> 2],
     Ushort4Norm |-> [component |-> "Ushort", count |-> 4],
     Short2Norm |-> [component |-> "Short", count |-> 2],
     Short4Norm |-> [component |-> "Short", count |-> 4],
     Half2 |-> [component |-> "Half", count |-> 2],
     Half4 |-> [component |-> "Half", count |-> 4],
     Float |-> [component |-> "Float", count |-> 1],
     Float2 |-> [component |-> "Float", count |-> 2],
     Float3 |-> [component |-> "Float", count |-> 3],
     Float4 |-> [component |-> "Float", count |-> 4],
     Uint |-> [component |-> "Uint", count |-> 1],
     Uint2 |-> [component |-> "Uint", count |-> 2],
     Uint3 |-> [component |-> "Uint", count |-> 3],
     Uint4 |-> [component |-> "Uint", count |-> 4],
     Int |-> [component |-> "Int", count |-> 1],
     Int2 |-> [component |-> "Int", count |-> 2],
     Int3 |-> [component |-> "Int", count |-> 3],
     Int4 |-> [component |-> "Int", count |-> 4]]

\* The arms of the match in VertexFormat::size.
VertexFormat_size_arms ==
    << [pat |-> {"Uchar2", "Char2", "Uchar2Norm", "Char2Norm"}, val |-> 2],
       [pat |-> {"Uchar4", "Char4", "Uchar4Norm", "Char4Norm", "Ushort2",
                 "Short2", "Ushort2Norm", "Short2Norm", "Half2", "Float",
                 "Uint", "Int"}, val |-> 4],
       [pat |-> {"Ushort4", "Short4", "Ushort4Norm", "Short4Norm", "Half4",
                 "Float2", "Uint2", "Int2"}, val |-> 8],
       [pat |-> {"Float3", "Uint3", "Int3"}, val |-> 12],
       [pat |-> {"Float4", "Uint4", "Int4"}, val |-> 16] >>

\* The three-component arm returns the component count instead of the bytes.
VertexFormat_size_ComponentCount(self) ==
    Match([VertexFormat_size_arms EXCEPT ![4].val = 3], self)

\* Half4 is listed with the two-component halves, in the 4-byte arm.
VertexFormat_size_Half4WithHalf2(self) ==
    Match([VertexFormat_size_arms EXCEPT ![2].pat = @ \cup {"Half4"}], self)

\* VertexFormat::size
VertexFormat_size(self) == Match(VertexFormat_size_arms, self)

\* enum TextureFormat, in declaration order (discriminants 0..37).
TextureFormatVariants ==
    <<"R8Unorm", "R8Snorm", "R8Uint", "R8Sint", "R16Uint", "R16Sint",
      "R16Float", "Rg8Unorm", "Rg8Snorm", "Rg8Uint", "Rg8Sint", "R32Uint",
      "R32Sint", "R32Float", "Rg16Uint", "Rg16Sint", "Rg16Float",
      "Rgba8Unorm", "Rgba8UnormSrgb", "Rgba8Snorm", "Rgba8Uint", "Rgba8Sint",
      "Bgra8Unorm", "Bgra8UnormSrgb", "Rgb10a2Unorm", "Rg11b10Float",
      "Rg32Uint", "Rg32Sint", "Rg32Float", "Rgba16Uint", "Rgba16Sint",
      "Rgba16Float", "Rgba32Uint", "Rgba32Sint", "Rgba32Float",
      "Depth32Float", "Depth24Plus", "Depth24PlusStencil8">>

TextureFormat == Range(TextureFormatVariants)

TextureComponentType == {"Float", "Sint", "Uint"}

\* What the doc comment of each TextureFormat variant says of its value in
\* the shader: "Unsigned in shader", "Signed in shader", "Float in shader",
\* "converted to/from float", or a "Special depth" format.
TextureFormatDocumented ==
    [R8Unorm |-> "ConvertedToFloat", R8Snorm |-> "ConvertedToFloat",
     R8Uint |-> "Unsigned", R8Sint |-> "Signed", R16Uint |-> "Unsigned",
     R16Sint |-> "Signed", R16Float |-> "Float",
     Rg8Unorm |-> "ConvertedToFloat", Rg8Snorm |-> "ConvertedToFloat",
     Rg8Uint |-> "Unsigned", Rg8Sint |-> "Signed", R32Uint |-> "Unsigned",
     R32Sint |-> "Signed", R32Float |-> "Float", Rg16Uint |-> "Unsigned",
     Rg16Sint |-> "Signed", Rg16Float |-> "Float",
     Rgba8Unorm |-> "ConvertedToFloat",
     Rgba8UnormSrgb |-> "ConvertedToFloat",
     Rgba8Snorm |-> "ConvertedToFloat", Rgba8Uint |-> "Unsigned",
     Rgba8Sint |-> "Signed", Bgra8Unorm |-> "ConvertedToFloat",
     Bgra8UnormSrgb |-> "ConvertedToFloat",
     Rgb10a2Unorm |-> "ConvertedToFloat", Rg11b10Float |-> "Float",
     Rg32Uint |-> "Unsigned", Rg32Sint |-> "Signed", Rg32Float |-> "Float",
     Rgba16Uint |-> "Unsigned", Rgba16Sint |-> "Signed",
     Rgba16Float |-> "Float", Rgba32Uint |-> "Unsigned",
     Rgba32Sint |-> "Signed", Rgba32Float |-> "Float",
     Depth32Float |-> "Depth", Depth24Plus |-> "Depth",
     Depth24PlusStencil8 |-> "Depth"]

\* The arms of the match in TextureComponentType::from.
TextureComponentType_from_arms ==
    << [pat |-> {"R8Uint", "R16Uint", "Rg8Uint", "R32Uint", "Rg16Uint",
                 "Rgba8Uint", "Rg32Uint", "Rgba16Uint", "Rgba32Uint"},
        val |-> "Uint"],
       [pat |-> {"R8Sint", "R16Sint", "Rg8Sint", "R32Sint", "Rg16Sint",
                 "Rgba8Sint", "Rg32Sint", "Rgba16Sint", "Rgba32Sint"},
        val |-> "Sint"],
       [pat |-> {"R8Unorm", "R8Snorm", "R16Float", "R32Float", "Rg8Unorm",
                 "Rg8Snorm", "Rg16Float", "Rg11b10Float", "Rg32Float",
                 "Rgba8Snorm", "Rgba16Float", "Rgba32Float", "Rgba8Unorm",
                 "Rgba8UnormSrgb", "Bgra8Unorm", "Bgra8UnormSrgb",
                 "Rgb10a2Unorm", "Depth32Float", "Depth24Plus",
                 "Depth24PlusStencil8"},
        val |-> "Float"] >>

\* The depth/stencil formats are left out of the Float arm.
TextureComponentType_from_NoDepth(format) ==
    Match([TextureComponentType_from_arms EXCEPT
              ![3].pat = @ \ {"Depth32Float", "Depth24Plus", "Depth24PlusStencil8"}],
          format)

\* Rg32Sint is listed with the unsigned formats.
TextureComponentType_from_Rg32SintAsUint(format) ==
    Match([TextureComponentType_from_arms EXCEPT ![1].pat = @ \cup {"Rg32Sint"}],
          format)

\* impl From<TextureFormat> for TextureComponentType
TextureComponentType_from(format) == Match(TextureComponentType_from_arms, format)

----------------------------------------------------------------------------
(* Label-carrying descriptors and map_label                                *)

\* Number of distinct label values of the model.
MaxLabels == 2

\* Label values (the type parameter L, and K after a projection).
Labels == 1..MaxLabels

\* Label functions `fun: impl FnOnce(&L) -> K`.
LabelFuns == [Labels -> Labels]

Identity == [l \in Labels |-> l]

\* g after f
Compose(g, f) == [l \in Labels |-> g[f[l]]]

\* The descriptor types that have map_label.
DescriptorKinds ==
    {"BufferDescriptor", "CommandEncoderDescriptor", "TextureDescriptor",
     "TextureViewDescriptor", "SamplerDescriptor", "RenderBundleDescriptor"}

\* Two values per field of each descriptor type, fields of one type getting
\* different values, so that a dropped, swapped or defaulted field shows.
\* f32 clamps and u64 sizes are copied only; small naturals stand for them.
BaseFields(k) ==
    CASE k = "BufferDescriptor" ->
            [size |-> 256, usage |-> 9, mapped_at_creation |-> FALSE]
      [] k = "CommandEncoderDescriptor" -> <<>>
      [] k = "TextureDescriptor" ->
            [size |-> [width |-> 64, height |-> 32, depth |-> 1],
             mip_level_count |-> 1, sample_count |-> 4, dimension |-> "D2",
             format |-> "Rgba8Unorm", usage |-> 4]
      [] k = "TextureViewDescriptor" ->
            [format |-> "Rgba8Unorm", dimension |-> "D2", aspect |-> "All",
             base_mip_level |-> 0, level_count |-> 1, base_array_layer |-> 2,
             array_layer_count |-> 3]
      [] k = "SamplerDescriptor" ->
            [address_mode_u |-> "ClampToEdge", address_mode_v |-> "ClampToEdge",
             address_mode_w |-> "ClampToEdge", mag_filter |-> "Nearest",
             min_filter |-> "Nearest", mipmap_filter |-> "Nearest",
             lod_min_clamp |-> 0, lod_max_clamp |-> 32,
             compare |-> [some |-> FALSE], anisotropy_clamp |-> [some |-> FALSE]]
      [] k = "RenderBundleDescriptor" -> <<>>

AltFields(k) ==
    CASE k = "BufferDescriptor" ->
            [size |-> 1024, usage |-> 32, mapped_at_creation |-> TRUE]
      [] k = "CommandEncoderDescriptor" -> <<>>
      [] k = "TextureDescriptor" ->
            [size |-> [width |-> 8, height |-> 16, depth |-> 6],
             mip_level_count |-> 5, sample_count |-> 1, dimension |-> "D3",
             format |-> "Depth32Float", usage |-> 16]
      [] k = "TextureViewDescriptor" ->
            [format |-> "Depth24Plus", dimension |-> "CubeArray",
             aspect |-> "DepthOnly", base_mip_level |-> 4, level_count |-> 5,
             base_array_layer |-> 6, array_layer_count |-> 12]
      [] k = "SamplerDescriptor" ->
            [address_mode_u |-> "Repeat", address_mode_v |-> "MirrorRepeat",
             address_mode_w |-> "Repeat", mag_filter |-> "Linear",
             min_filter |-> "Linear", mipmap_filter |-> "Linear",
             lod_min_clamp |-> 1, lod_max_clamp |-> 8,
             compare |-> [some |-> TRUE, val |-> "LessEqual"],
             anisotropy_clamp |-> [some |-> TRUE, val |-> 16]]
      [] k = "RenderBundleDescriptor" -> <<>>

\* A record extended with its label field.
WithLabel(fields, l) ==
    [f \in DOMAIN fields \cup {"label"} |-> IF f = "label" THEN l ELSE fields[f]]

\* The descriptors of type k a client can build: any label, and the base
\* values with at most two fields changed to their other value.
Descriptors(k) ==
    LET names == DOMAIN BaseFields(k) \cup {"label"} IN
    {WithLabel([f \in DOMAIN BaseFields(k) |->
                   IF f \in {x, y} THEN AltFields(k)[f] ELSE BaseFields(k)[f]], l) :
        x \in names, y \in names, l \in Labels}

\* SamplerDescriptor::map_label with mag_filter and min_filter exchanged.
SamplerDescriptor_map_label_Swapped(self, fun) ==
    [label |-> fun[self.label],
     address_mode_u |-> self.address_mode_u,
     address_mode_v |-> self.address_mode_v,
     address_mode_w |-> self.address_mode_w,
     mag_filter |-> self.min_filter,
     min_filter |-> self.mag_filter,
     mipmap_filter |-> self.mipmap_filter,
     lod_min_clamp |-> self.lod_min_clamp,
     lod_max_clamp |-> self.lod_max_clamp,
     compare |-> self.compare,
     anisotropy_clamp |-> self.anisotropy_clamp]

\* TextureDescriptor::map_label with sample_count reset to 1.
TextureDescriptor_map_label_Defaulted(self, fun) ==
    [label |-> fun[self.label],
     size |-> self.size,
     mip_level_count |-> self.mip_level_count,
     sample_count |-> 1,
     dimension |-> self.dimension,
     format |-> self.format,
     usage |-> self.usage]

\* BufferDescriptor::map_label
BufferDescriptor_map_label(self, fun) ==
    [label |-> fun[self.label],
     size |-> self.size,
     usage |-> self.usage,
     mapped_at_creation |-> self.mapped_at_creation]

\* CommandEncoderDescriptor::map_label
CommandEncoderDescriptor_map_label(self, fun) ==
    [label |-> fun[self.label]]

\* TextureDescriptor::map_label
TextureDescriptor_map_label(self, fun) ==
    [label |-> fun[self.label],
     size |-> self.size,
     mip_level_count |-> self.mip_level_count,
     sample_count |-> self.sample_count,
     dimension |-> self.dimension,
     format |-> self.format,
     usage |-> self.usage]

\* TextureViewDescriptor::map_label
TextureViewDescriptor_map_label(self, fun) ==
    [label |-> fun[self.label],
     format |-> self.format,
     dimension |-> self.dimension,
     aspect |-> self.aspect,
     base_mip_level |-> self.base_mip_level,
     level_count |-> self.level_count,
     base_array_layer |-> self.base_array_layer,
     array_layer_count |-> self.array_layer_count]

\* SamplerDescriptor::map_label
SamplerDescriptor_map_label(self, fun) ==
    [label |-> fun[self.label],
     address_mode_u |-> self.address_mode_u,
     address_mode_v |-> self.address_mode_v,
     address_mode_w |-> self.address_mode_w,
     mag_filter |-> self.mag_filter,
     min_filter |-> self.min_filter,
     mipmap_filter |-> self.mipmap_filter,
     lod_min_clamp |-> self.lod_min_clamp,
     lod_max_clamp |-> self.lod_max_clamp,
     compare |-> self.compare,
     anisotropy_clamp |-> self.anisotropy_clamp]

\* RenderBundleDescriptor::map_label
RenderBundleDescriptor_map_label(self, fun) ==
    [label |-> fun[self.label]]

\* d.map_label(fun) for a descriptor d of type k.
map_label(k, self, fun) ==
    CASE k = "BufferDescriptor" -> BufferDescriptor_map_label(self, fun)
      [] k = "CommandEncoderDescriptor" -> CommandEncoderDescriptor_map_label(self, fun)
      [] k = "TextureDescriptor" -> TextureDescriptor_map_label(self, fun)
      [] k = "TextureViewDescriptor" -> TextureViewDescriptor_map_label(self, fun)
      [] k = "SamplerDescriptor" -> SamplerDescriptor_map_label(self, fun)
      [] k = "RenderBundleDescriptor" -> RenderBundleDescriptor_map_label(self, fun)

----------------------------------------------------------------------------
(* Bind group layout entries                                               *)

\* bitflags ShaderStage
ShaderStage_NONE == 0
ShaderStage_VERTEX == 1
ShaderStage_FRAGMENT == 2
ShaderStage_COMPUTE == 4

\* enum BindingType: values of each variant, with the fields it carries.
\* min_binding_size is an Option<BufferSize>.
BindingTypes ==
    {[variant |-> "UniformBuffer", dynamic |-> d, min_binding_size |-> s] :
        d \in BOOLEAN, s \in {[some |-> FALSE], [some |-> TRUE, val |-> 16]}}
    \cup
    {[variant |-> "StorageBuffer", dynamic |-> d, min_binding_size |-> s,
      readonly |-> r] :
        d \in BOOLEAN, s \in {[some |-> FALSE], [some |-> TRUE, val |-> 16]},
        r \in BOOLEAN}
    \cup
    {[variant |-> "Sampler", comparison |-> c] : c \in BOOLEAN}
    \cup
    {[variant |-> "SampledTexture", dimension |-> dim, component_type |-> c,
      multisampled |-> ms] :
        dim \in {"D2", "Cube"}, c \in TextureComponentType, ms \in BOOLEAN}
    \cup
    {[variant |-> "StorageTexture", dimension |-> dim, format |-> f,
      readonly |-> r] :
        dim \in {"D2", "D3"}, f \in {"R32Float", "Rgba8Uint"}, r \in BOOLEAN}

\* struct BindGroupLayoutEntry: count is an Option<u32>.
BindGroupLayoutEntries ==
    [binding : {0, 1},
     visibility : {ShaderStage_NONE, ShaderStage_VERTEX,
                   BitOr(ShaderStage_FRAGMENT, ShaderStage_COMPUTE)},
     ty : BindingTypes,
     count : {[some |-> FALSE], [some |-> TRUE, val |-> 1],
              [some |-> TRUE, val |-> 4]}]

\* has_dynamic_offset without the StorageBuffer pattern.
has_dynamic_offset_UniformOnly(self) ==
    IF self.ty.variant = "UniformBuffer" THEN self.ty.dynamic ELSE FALSE

\* BindGroupLayoutEntry::has_dynamic_offset
has_dynamic_offset(self) ==
    IF self.ty.variant \in {"UniformBuffer", "StorageBuffer"}
    THEN self.ty.dynamic
    ELSE FALSE

----------------------------------------------------------------------------
(* Depth, stencil and blend state                                          *)

\* enum CompareFunction, in declaration order (discriminants 0..8).
CompareFunctionVariants ==
    <<"Undefined", "Never", "Less", "Equal", "LessEqual", "Greater",
      "NotEqual", "GreaterEqual", "Always">>

CompareFunction == Range(CompareFunctionVariants)

\* The arms of the match in CompareFunction::is_trivial; `_` holds everything.
is_trivial_arms ==
    << [pat |-> {"Never", "Always"}, val |-> TRUE],
       [pat |-> CompareFunction, val |-> FALSE] >>

\* is_trivial with only Always in the first arm.
is_trivial_AlwaysOnly(self) ==
    Match([is_trivial_arms EXCEPT ![1].pat = {"Always"}], self).val

\* CompareFunction::is_trivial
is_trivial(self) == Match(is_trivial_arms, self).val

\* enum StencilOperation, in declaration order (discriminants 0..7).
StencilOperationVariants ==
    <<"Keep", "Zero", "Replace", "Invert", "IncrementClamp",
      "DecrementClamp", "IncrementWrap", "DecrementWrap">>

StencilOperation == Range(StencilOperationVariants)

\* IGNORE with the compare function of a depth test.
StencilStateFaceDescriptor_IGNORE_Less ==
    [compare |-> "Less", fail_op |-> "Keep", depth_fail_op |-> "Keep",
     pass_op |-> "Keep"]

\* StencilStateFaceDescriptor::IGNORE
StencilStateFaceDescriptor_IGNORE ==
    [compare |-> "Always", fail_op |-> "Keep", depth_fail_op |-> "Keep",
     pass_op |-> "Keep"]

\* impl Default for StencilStateFaceDescriptor
StencilStateFaceDescriptor_default == StencilStateFaceDescriptor_IGNORE

\* struct StencilStateFaceDescriptor: every compare function, with the
\* operations of IGNORE or three other operations.
StencilStateFaceDescriptors ==
    {[compare |-> c, fail_op |-> o[1], depth_fail_op |-> o[2],
      pass_op |-> o[3]] :
        c \in CompareFunction,
        o \in {<<"Keep", "Keep", "Keep">>,
               <<"Replace", "Zero", "IncrementClamp">>}}

\* struct DepthStencilStateDescriptor: the masks are u32; 256 has no bit in
\* the low 8.
DepthStencilStateDescriptors ==
    [format : {"Depth32Float", "Depth24PlusStencil8"},
     depth_write_enabled : BOOLEAN,
     depth_compare : {"Less", "Always"},
     stencil_front : StencilStateFaceDescriptors,
     stencil_back : StencilStateFaceDescriptors,
     stencil_read_mask : {0, 255},
     stencil_write_mask : {0, 1, 256}]

\* needs_stencil_reference that looks at the front face only.
needs_stencil_reference_FrontOnly(self) ==
    ~is_trivial(self.stencil_front.compare)

\* DepthStencilStateDescriptor::needs_stencil_reference
needs_stencil_reference(self) ==
    \/ ~is_trivial(self.stencil_front.compare)
    \/ ~is_trivial(self.stencil_back.compare)

\* is_read_only that looks at the depth write flag only.
is_read_only_DepthOnly(self) == ~self.depth_write_enabled

\* DepthStencilStateDescriptor::is_read_only
is_read_only(self) ==
    ~self.depth_write_enabled /\ self.stencil_write_mask = 0

\* enum BlendFactor, in declaration order (discriminants 0..12).
BlendFactorVariants ==
    <<"Zero", "One", "SrcColor", "OneMinusSrcColor", "SrcAlpha",
      "OneMinusSrcAlpha", "DstColor", "OneMinusDstColor", "DstAlpha",
      "OneMinusDstAlpha", "SrcAlphaSaturated", "BlendColor",
      "OneMinusBlendColor">>

BlendFactor == Range(BlendFactorVariants)

\* enum BlendOperation, in declaration order (discriminants 0..4).
BlendOperationVariants ==
    <<"Add", "Subtract", "ReverseSubtract", "Min", "Max">>

BlendOperation == Range(BlendOperationVariants)

\* struct BlendDescriptor
BlendDescriptors ==
    [src_factor : BlendFactor, dst_factor : BlendFactor,
     operation : BlendOperation]

\* BlendDescriptor::REPLACE
BlendDescriptor_REPLACE ==
    [src_factor |-> "One", dst_factor |-> "Zero", operation |-> "Add"]

\* The arms of the match on (src_factor, dst_factor) in uses_color; `_` holds
\* every factor.
uses_color_arms ==
    << [pat |-> ({"BlendColor"} \X BlendFactor)
                \cup ({"OneMinusBlendColor"} \X BlendFactor)
                \cup (BlendFactor \X {"BlendColor"})
                \cup (BlendFactor \X {"OneMinusBlendColor"}),
        val |-> TRUE],
       [pat |-> BlendFactor \X BlendFactor, val |-> FALSE] >>

\* uses_color without the two destination patterns.
uses_color_SrcOnly(self) ==
    Match([uses_color_arms EXCEPT
              ![1].pat = {"BlendColor", "OneMinusBlendColor"} \X BlendFactor],
          <<self.src_factor, self.dst_factor>>).val

\* BlendDescriptor::uses_color
uses_color(self) ==
    Match(uses_color_arms, <<self.src_factor, self.dst_factor>>).val

----------------------------------------------------------------------------
(* Descriptor validation.  The crate declares PushConstantRange and        *)
(* BindGroupLayoutEntry and documents when they are legal; the checks run  *)
(* at resource creation in wgpu-core and are modelled from the             *)
(* specification (3, 4.4).                                                 *)

MaxRanges == 2

\* struct PushConstantRange: stages is any ShaderStage set, range a
\* 4-aligned Range<u32>.
PushConstantRanges ==
    [stages : 0 .. BitOr(ShaderStage_VERTEX,
                         BitOr(ShaderStage_FRAGMENT, ShaderStage_COMPUTE)),
     range : {[start |-> 0, end |-> 4], [start |-> 4, end |-> 8]}]

\* PipelineLayoutDescriptor::push_constant_ranges, up to MaxRanges long.
PushConstantRangeLists ==
    UNION {[1 .. n -> PushConstantRanges] : n \in 0 .. MaxRanges}

\* The walk over the ranges that rejects only a repeated stage set.
RECURSIVE validate_push_constant_ranges_EqualOnly(_, _)
validate_push_constant_ranges_EqualOnly(ranges, used_stages) ==
    IF ranges = <<>> THEN "Ok"
    ELSE IF Head(ranges).stages # 0 /\ Head(ranges).stages = used_stages
         THEN "InvalidDescriptor"
    ELSE validate_push_constant_ranges_EqualOnly(
             Tail(ranges), BitOr(used_stages, Head(ranges).stages))

\* Pipeline layout creation walks the ranges in order with the stages served
\* so far; a range whose stages intersect them is an invalid descriptor.
RECURSIVE validate_push_constant_ranges(_, _)
validate_push_constant_ranges(ranges, used_stages) ==
    IF ranges = <<>> THEN "Ok"
    ELSE IF BitAnd(Head(ranges).stages, used_stages) # 0
         THEN "InvalidDescriptor"
    ELSE validate_push_constant_ranges(
             Tail(ranges), BitOr(used_stages, Head(ranges).stages))

\* Bind group layout creation on a device with the given features: an array
\* count needs a SampledTexture binding and SAMPLED_TEXTURE_BINDING_ARRAY.
validate_bind_group_layout_entry(features, entry) ==
    IF ~entry.count.some THEN "Ok"
    ELSE IF entry.ty.variant = "SampledTexture"
         THEN IF Features_contains(features, SAMPLED_TEXTURE_BINDING_ARRAY)
              THEN "Ok"
              ELSE "InvalidDescriptor"
    ELSE "InvalidDescriptor"

----------------------------------------------------------------------------
(* Alignment constants                                                     *)

COPY_BYTES_PER_ROW_ALIGNMENT == 256
BIND_BUFFER_ALIGNMENT == 256

\* The buffer copy alignment given the value of the row pitch alignment.
COPY_BUFFER_ALIGNMENT_AsRowPitch == COPY_BYTES_PER_ROW_ALIGNMENT

COPY_BUFFER_ALIGNMENT == 4
PUSH_CONSTANT_ALIGNMENT == 4

\* The alignment constants by name.
AlignmentNames ==
    {"COPY_BYTES_PER_ROW_ALIGNMENT", "BIND_BUFFER_ALIGNMENT",
     "COPY_BUFFER_ALIGNMENT", "PUSH_CONSTANT_ALIGNMENT"}

AlignmentNamed(name) ==
    CASE name = "COPY_BYTES_PER_ROW_ALIGNMENT" -> COPY_BYTES_PER_ROW_ALIGNMENT
      [] name = "BIND_BUFFER_ALIGNMENT" -> BIND_BUFFER_ALIGNMENT
      [] name = "COPY_BUFFER_ALIGNMENT" -> COPY_BUFFER_ALIGNMENT
      [] name = "PUSH_CONSTANT_ALIGNMENT" -> PUSH_CONSTANT_ALIGNMENT

----------------------------------------------------------------------------
(* Enum declarations and their discriminants                               *)

\* A variant declared `Name = n`.
Explicit(name, n) == [name |-> name, tag |-> [some |-> TRUE, val |-> n]]

\* A variant declared `Name`, without a discriminant.
Implicit(name) == [name |-> name, tag |-> [some |-> FALSE]]

\* enum Backend
Enum_Backend ==
    <<Explicit("Empty", 0), Explicit("Vulkan", 1), Explicit("Metal", 2),
      Explicit("Dx12", 3), Explicit("Dx11", 4), Explicit("Gl", 5),
      Explicit("BrowserWebGpu", 6)>>

\* enum PowerPreference
Enum_PowerPreference ==
    <<Explicit("Default", 0), Explicit("LowPower", 1),
      Explicit("HighPerformance", 2)>>

\* enum TextureViewDimension
Enum_TextureViewDimension ==
    <<Implicit("D1"), Implicit("D2"), Implicit("D2Array"), Implicit("Cube"),
      Implicit("CubeArray"), Implicit("D3")>>

\* enum BlendFactor
Enum_BlendFactor ==
    <<Explicit("Zero", 0), Explicit("One", 1), Explicit("SrcColor", 2),
      Explicit("OneMinusSrcColor", 3), Explicit("SrcAlpha", 4),
      Explicit("OneMinusSrcAlpha", 5), Explicit("DstColor", 6),
      Explicit("OneMinusDstColor", 7), Explicit("DstAlpha", 8),
      Explicit("OneMinusDstAlpha", 9), Explicit("SrcAlphaSaturated", 10),
      Explicit("BlendColor", 11), Explicit("OneMinusBlendColor", 12)>>

\* enum BlendOperation
Enum_BlendOperation ==
    <<Explicit("Add", 0), Explicit("Subtract", 1),
      Explicit("ReverseSubtract", 2), Explicit("Min", 3),
      Explicit("Max", 4)>>

\* enum PrimitiveTopology
Enum_PrimitiveTopology ==
    <<Explicit("PointList", 0), Explicit("LineList", 1),
      Explicit("LineStrip", 2), Explicit("TriangleList", 3),
      Explicit("TriangleStrip", 4)>>

\* enum FrontFace
Enum_FrontFace ==
    <<Explicit("Ccw", 0), Explicit("Cw", 1)>>

\* enum CullMode
Enum_CullMode ==
    <<Explicit("None", 0), Explicit("Front", 1), Explicit("Back", 2)>>

\* enum TextureFormat
Enum_TextureFormat ==
    <<Explicit("R8Unorm", 0), Explicit("R8Snorm", 1), Explicit("R8Uint", 2),
      Explicit("R8Sint", 3), Explicit("R16Uint", 4), Explicit("R16Sint", 5),
      Explicit("R16Float", 6), Explicit("Rg8Unorm", 7),
      Explicit("Rg8Snorm", 8), Explicit("Rg8Uint", 9),
      Explicit("Rg8Sint", 10), Explicit("R32Uint", 11),
      Explicit("R32Sint", 12), Explicit("R32Float", 13),
      Explicit("Rg16Uint", 14), Explicit("Rg16Sint", 15),
      Explicit("Rg16Float", 16), Explicit("Rgba8Unorm", 17),
      Explicit("Rgba8UnormSrgb", 18), Explicit("Rgba8Snorm", 19),
      Explicit("Rgba8Uint", 20), Explicit("Rgba8Sint", 21),
      Explicit("Bgra8Unorm", 22), Explicit("Bgra8UnormSrgb", 23),
      Explicit("Rgb10a2Unorm", 24), Explicit("Rg11b10Float", 25),
      Explicit("Rg32Uint", 26), Explicit("Rg32Sint", 27),
      Explicit("Rg32Float", 28), Explicit("Rgba16Uint", 29),
      Explicit("Rgba16Sint", 30), Explicit("Rgba16Float", 31),
      Explicit("Rgba32Uint", 32), Explicit("Rgba32Sint", 33),
      Explicit("Rgba32Float", 34), Explicit("Depth32Float", 35),
      Explicit("Depth24Plus", 36), Explicit("Depth24PlusStencil8", 37)>>

\* enum IndexFormat
Enum_IndexFormat ==
    <<Explicit("Uint16", 0), Explicit("Uint32", 1)>>

\* enum StencilOperation
Enum_StencilOperation ==
    <<Explicit("Keep", 0), Explicit("Zero", 1), Explicit("Replace", 2),
      Explicit("Invert", 3), Explicit("IncrementClamp", 4),
      Explicit("DecrementClamp", 5), Explicit("IncrementWrap", 6),
      Explicit("DecrementWrap", 7)>>

\* enum CompareFunction
Enum_CompareFunction ==
    <<Explicit("Undefined", 0), Explicit("Never", 1), Explicit("Less", 2),
      Explicit("Equal", 3), Explicit("LessEqual", 4),
      Explicit("Greater", 5), Explicit("NotEqual", 6),
      Explicit("GreaterEqual", 7), Explicit("Always", 8)>>

\* enum InputStepMode
Enum_InputStepMode ==
    <<Explicit("Vertex", 0), Explicit("Instance", 1)>>

\* enum VertexFormat
Enum_VertexFormat ==
    <<Explicit("Uchar2", 0), Explicit("Uchar4", 1), Explicit("Char2", 2),
      Explicit("Char4", 3), Explicit("Uchar2Norm", 4),
      Explicit("Uchar4Norm", 5), Explicit("Char2Norm", 6),
      Explicit("Char4Norm", 7), Explicit("Ushort2", 8),
      Explicit("Ushort4", 9), Explicit("Short2", 10),
      Explicit("Short4", 11), Explicit("Ushort2Norm", 12),
      Explicit("Ushort4Norm", 13), Explicit("Short2Norm", 14),
      Explicit("Short4Norm", 15), Explicit("Half2", 16),
      Explicit("Half4", 17), Explicit("Float", 18), Explicit("Float2", 19),
      Explicit("Float3", 20), Explicit("Float4", 21), Explicit("Uint", 22),
      Explicit("Uint2", 23), Explicit("Uint3", 24), Explicit("Uint4", 25),
      Explicit("Int", 26), Explicit("Int2", 27), Explicit("Int3", 28),
      Explicit("Int4", 29)>>

\* enum PresentMode
Enum_PresentMode ==
    <<Explicit("Immediate", 0), Explicit("Mailbox", 1),
      Explicit("Fifo", 2)>>

\* enum SwapChainStatus
Enum_SwapChainStatus ==
    <<Implicit("Good"), Implicit("Suboptimal"), Implicit("Timeout"),
      Implicit("Outdated"), Implicit("Lost")>>

\* enum TextureDimension
Enum_TextureDimension ==
    <<Implicit("D1"), Implicit("D2"), Implicit("D3")>>

\* enum TextureAspect
Enum_TextureAspect ==
    <<Implicit("All"), Implicit("StencilOnly"), Implicit("DepthOnly")>>

\* enum AddressMode
Enum_AddressMode ==
    <<Explicit("ClampToEdge", 0), Explicit("Repeat", 1),
      Explicit("MirrorRepeat", 2)>>

\* enum FilterMode
Enum_FilterMode ==
    <<Explicit("Nearest", 0), Explicit("Linear", 1)>>

\* enum TextureComponentType
Enum_TextureComponentType ==
    <<Implicit("Float"), Implicit("Sint"), Implicit("Uint")>>

\* The fieldless enums of the crate, by name.
EnumDeclarations ==
    [Backend |-> Enum_Backend,
     PowerPreference |-> Enum_PowerPreference,
     TextureViewDimension |-> Enum_TextureViewDimension,
     BlendFactor |-> Enum_BlendFactor,
     BlendOperation |-> Enum_BlendOperation,
     PrimitiveTopology |-> Enum_PrimitiveTopology,
     FrontFace |-> Enum_FrontFace,
     CullMode |-> Enum_CullMode,
     TextureFormat |-> Enum_TextureFormat,
     IndexFormat |-> Enum_IndexFormat,
     StencilOperation |-> Enum_StencilOperation,
     CompareFunction |-> Enum_CompareFunction,
     InputStepMode |-> Enum_InputStepMode,
     VertexFormat |-> Enum_VertexFormat,
     PresentMode |-> Enum_PresentMode,
     SwapChainStatus |-> Enum_SwapChainStatus,
     TextureDimension |-> Enum_TextureDimension,
     TextureAspect |-> Enum_TextureAspect,
     AddressMode |-> Enum_AddressMode,
     FilterMode |-> Enum_FilterMode,
     TextureComponentType |-> Enum_TextureComponentType]

\* `variant as u32` for the i-th variant of a declaration: the discriminant
\* written on it, else one more than the previous variant's, 0 for the first.
RECURSIVE Discriminant(_, _)
Discriminant(decls, i) ==
    IF decls[i].tag.some THEN decls[i].tag.val
    ELSE IF i = 1 THEN 0
    ELSE Discriminant(decls, i - 1) + 1

----------------------------------------------------------------------------
(* The descriptor types with a debug label                                 *)

\* Every struct that declares `pub label`.
LabelCarryingDescriptors ==
    {"BufferDescriptor", "CommandEncoderDescriptor", "TextureDescriptor",
     "TextureViewDescriptor", "SamplerDescriptor", "BindGroupDescriptor",
     "RenderBundleEncoderDescriptor", "RenderBundleDescriptor",
     "BindGroupLayoutDescriptor"}

\* The declared type of the label field: the type parameter L, or a fixed
\* optional string.  (The L of BindGroupDescriptor<'a, L, B> is its layout.)
LabelFieldType(k) ==
    CASE k = "BufferDescriptor" -> "L"
      [] k = "CommandEncoderDescriptor" -> "L"
      [] k = "TextureDescriptor" -> "L"
      [] k = "TextureViewDescriptor" -> "L"
      [] k = "SamplerDescriptor" -> "L"
      [] k = "BindGroupDescriptor" -> "Option<Cow<'a, str>>"
      [] k = "RenderBundleEncoderDescriptor" -> "Option<Cow<'a, str>>"
      [] k = "RenderBundleDescriptor" -> "L"
      [] k = "BindGroupLayoutDescriptor" -> "Option<Cow<'a, str>>"

\* Whether the type has an impl block with map_label.
HasMapLabel(k) == k \in DescriptorKinds

\* d.map_label(fun) looked up on a descriptor of type k with label l: the
\* projected label where the method exists, no method otherwise.
resolve_map_label(k, l, fun) ==
    IF HasMapLabel(k)
    THEN [resolved |-> TRUE,
          label |-> map_label(k, WithLabel(BaseFields(k), l), fun).label]
    ELSE [resolved |-> FALSE]

----------------------------------------------------------------------------
(* Actions of Spec: one library call each.                                 *)

Idle == [op |-> "none"]

CallBackendBitFrom(b) ==
    /\ call = Idle
    /\ call' = [op |-> "BackendBit::from", backend |-> b, ret |-> BackendBit_from(b)]
    /\ UNCHANGED <<labelVars, concVars>>

CallVertexFormatSize(f) ==
    /\ call = Idle
    /\ call' = [op |-> "VertexFormat::size", format |-> f, ret |-> VertexFormat_size(f)]
    /\ UNCHANGED <<labelVars, concVars>>

CallTextureComponentTypeFrom(f) ==
    /\ call = Idle
    /\ call' = [op |-> "TextureComponentType::from", format |-> f,
                ret |-> TextureComponentType_from(f)]
    /\ UNCHANGED <<labelVars, concVars>>

CallFeaturesContains(advertised, requested) ==
    /\ call = Idle
    /\ call' = [op |-> "Features::contains", advertised |-> advertised,
                requested |-> requested,
                ret |-> Features_contains(advertised, requested)]
    /\ UNCHANGED <<labelVars, concVars>>

CallLimitsLe(requested, advertised) ==
    /\ call = Idle
    /\ call' = [op |-> "Limits::le", raised |-> "none", requested |-> requested,
                advertised |-> advertised,
                ret |-> Limits_le(requested, advertised)]
    /\ UNCHANGED <<labelVars, concVars>>

\* The client raises one field of the request above the advertised value and
\* compares again.
RaiseAndCallLimitsLe(f) ==
    /\ call.op = "Limits::le"
    /\ call.raised = "none"
    /\ LET requested == [call.requested EXCEPT ![f] = call.advertised[f] + 1] IN
       call' = [op |-> "Limits::le", raised |-> f, requested |-> requested,
                advertised |-> call.advertised,
                ret |-> Limits_le(requested, call.advertised)]
    /\ UNCHANGED <<labelVars, concVars>>

CallRequestDevice(advFeatures, advLimits, reqFeatures, reqLimits) ==
    /\ call = Idle
    /\ call' = [op |-> "request_device", advFeatures |-> advFeatures,
                advLimits |-> advLimits, reqFeatures |-> reqFeatures,
                reqLimits |-> reqLimits,
                ret |-> request_device(advFeatures, advLimits, reqFeatures, reqLimits)]
    /\ UNCHANGED <<labelVars, concVars>>

CallHasDynamicOffset(entry) ==
    /\ call = Idle
    /\ call' = [op |-> "has_dynamic_offset", entry |-> entry,
                ret |-> has_dynamic_offset(entry)]
    /\ UNCHANGED <<labelVars, concVars>>

CallIsTrivial(c) ==
    /\ call = Idle
    /\ call' = [op |-> "is_trivial", compare |-> c, ret |-> is_trivial(c)]
    /\ UNCHANGED <<labelVars, concVars>>

CallNeedsStencilReference(d) ==
    /\ call = Idle
    /\ call' = [op |-> "needs_stencil_reference", state |-> d,
                ret |-> needs_stencil_reference(d)]
    /\ UNCHANGED <<labelVars, concVars>>

CallIsReadOnly(d) ==
    /\ call = Idle
    /\ call' = [op |-> "is_read_only", state |-> d, ret |-> is_read_only(d)]
    /\ UNCHANGED <<labelVars, concVars>>

CallUsesColor(b) ==
    /\ call = Idle
    /\ call' = [op |-> "uses_color", blend |-> b, ret |-> uses_color(b)]
    /\ UNCHANGED <<labelVars, concVars>>

CallCreatePipelineLayout(ranges) ==
    /\ call = Idle
    /\ call' = [op |-> "create_pipeline_layout",
                push_constant_ranges |-> ranges,
                ret |-> validate_push_constant_ranges(ranges, ShaderStage_NONE)]
    /\ UNCHANGED <<labelVars, concVars>>

CallCreateBindGroupLayout(features, entry) ==
    /\ call = Idle
    /\ call' = [op |-> "create_bind_group_layout", features |-> features,
                entry |-> entry,
                ret |-> validate_bind_group_layout_entry(features, entry)]
    /\ UNCHANGED <<labelVars, concVars>>

\* The conversion applied to two backends.
CallBackendBitFromTwo(a, b) ==
    /\ call = Idle
    /\ call' = [op |-> "BackendBit::from, twice", a |-> a, b |-> b,
                ret_a |-> BackendBit_from(a), ret_b |-> BackendBit_from(b)]
    /\ UNCHANGED <<labelVars, concVars>>

\* BackendBit::<name>.bits()
CallBackendBitBits(name) ==
    /\ call = Idle
    /\ call' = [op |-> "BackendBit::bits", flag |-> name,
                ret |-> BackendBitNamed(name)]
    /\ UNCHANGED <<labelVars, concVars>>

\* Limits::default()
CallLimitsDefault ==
    /\ call = Idle
    /\ call' = [op |-> "Limits::default", ret |-> Limits_default]
    /\ UNCHANGED <<labelVars, concVars>>

\* A client reads one of the alignment constants.
CallAlignment(name) ==
    /\ call = Idle
    /\ call' = [op |-> "alignment", name |-> name, ret |-> AlignmentNamed(name)]
    /\ UNCHANGED <<labelVars, concVars>>

\* The i-th variant of an enum is cast to its integer tag.
CallAsInteger(enum, i) ==
    /\ call = Idle
    /\ call' = [op |-> "as u32", enum |-> enum, index |-> i,
                variant |-> EnumDeclarations[enum][i].name,
                explicit |-> EnumDeclarations[enum][i].tag.some,
                ret |-> Discriminant(EnumDeclarations[enum], i)]
    /\ UNCHANGED <<labelVars, concVars>>

\* A client holding a labelled descriptor of type k asks for map_label.
CallMapLabelOn(k, l, fun) ==
    /\ call = Idle
    /\ call' = [op |-> "map_label", kind |-> k, label |-> l, fun |-> fun,
                label_type |-> LabelFieldType(k),
                ret |-> resolve_map_label(k, l, fun)]
    /\ UNCHANGED <<labelVars, concVars>>

\* The client has used the result; it may call again.
Return ==
    /\ call # Idle
    /\ call' = Idle
    /\ UNCHANGED <<labelVars, concVars>>

Init ==
    /\ call = Idle
    /\ stage = "none"
    /\ kind = "none"
    /\ desc0 = <<>>
    /\ desc = <<>>
    /\ fun1 = <<>>
    /\ out1 = <<>>
    /\ fun2 = <<>>
    /\ out2 = <<>>
    /\ shared = <<>>
    /\ shared0 = <<>>
    /\ threads = <<>>

\* The client calls any function of the crate with any arguments.
CallAny ==
    \/ \E b \in Backend : CallBackendBitFrom(b)
    \/ \E a, r \in FeaturesPool : CallFeaturesContains(a, r)
    \/ \E r, a \in LimitsPool : CallLimitsLe(r, a)
    \/ \E af, rf \in FeaturesSingles : \E al, rl \in LimitsPool :
          CallRequestDevice(af, al, rf, rl)
    \/ \E f \in VertexFormat : CallVertexFormatSize(f)
    \/ \E f \in TextureFormat : CallTextureComponentTypeFrom(f)
    \/ \E e \in BindGroupLayoutEntries : CallHasDynamicOffset(e)
    \/ \E c \in CompareFunction : CallIsTrivial(c)
    \/ \E d \in DepthStencilStateDescriptors : CallNeedsStencilReference(d)
    \/ \E d \in DepthStencilStateDescriptors : CallIsReadOnly(d)
    \/ \E b \in BlendDescriptors : CallUsesColor(b)
    \/ \E rs \in PushConstantRangeLists : CallCreatePipelineLayout(rs)
    \/ \E f \in FeaturesSingles : \E e \in BindGroupLayoutEntries :
          CallCreateBindGroupLayout(f, e)
    \/ \E a, b \in Backend : CallBackendBitFromTwo(a, b)
    \/ \E n \in BackendBitNames : CallBackendBitBits(n)
    \/ CallLimitsDefault
    \/ \E n \in AlignmentNames : CallAlignment(n)
    \/ \E e \in DOMAIN EnumDeclarations :
          \E i \in 1 .. Len(EnumDeclarations[e]) : CallAsInteger(e, i)
    \/ \E k \in LabelCarryingDescriptors : \E l \in Labels :
          \E fun \in LabelFuns : CallMapLabelOn(k, l, fun)

Next ==
    \/ call = Idle /\ CallAny
    \/ call # Idle /\ \E f \in Range(LimitsFields) : RaiseAndCallLimitsLe(f)
    \/ Return

Spec == Init /\ [][Next]_vars

----------------------------------------------------------------------------
(* Actions of SpecLabel: a descriptor and its projections.                 *)

\* The client builds a descriptor of type k.
Build(k, d) ==
    /\ stage = "none"
    /\ stage' = "built"
    /\ kind' = k
    /\ desc0' = d
    /\ desc' = d
    /\ UNCHANGED <<call, concVars, fun1, out1, fun2, out2>>

\* map_label that writes the new label into the descriptor it was called on.
MapLabel_InPlace(f) ==
    /\ stage \in {"built", "mapped"}
    /\ stage' = "mapped"
    /\ fun1' = f
    /\ out1' = map_label(kind, desc, f)
    /\ desc' = [desc EXCEPT !.label = f[desc.label]]
    /\ UNCHANGED <<call, concVars, kind, desc0, fun2, out2>>

\* desc.map_label(f): `&self` is borrowed immutably and a new descriptor is
\* returned.
MapLabel(f) ==
    /\ stage \in {"built", "mapped"}
    /\ stage' = "mapped"
    /\ fun1' = f
    /\ out1' = map_label(kind, desc, f)
    /\ UNCHANGED <<call, concVars, kind, desc0, desc, fun2, out2>>

\* out1.map_label(g): the projected descriptor is projected again.
MapLabelAgain(g) ==
    /\ stage = "mapped"
    /\ stage' = "remapped"
    /\ fun2' = g
    /\ out2' = map_label(kind, out1, g)
    /\ UNCHANGED <<call, concVars, kind, desc0, desc, fun1, out1>>

NextLabel ==
    \/ stage = "none" /\ \E k \in DescriptorKinds : \E d \in Descriptors(k) : Build(k, d)
    \/ \E f \in LabelFuns : MapLabel(f)
    \/ \E g \in LabelFuns : MapLabelAgain(g)

SpecLabel == Init /\ [][NextLabel]_vars

----------------------------------------------------------------------------
(* SpecConc: threads sharing immutable values.  Every function of the      *)
(* crate borrows its argument (&self) or copies it and has no lock, no     *)
(* atomic and no suspension point; a call is the sequence of its field     *)
(* reads, and the reads of different threads interleave freely.            *)

NumThreads == 2

Threads == 1 .. NumThreads

\* The functions the threads evaluate.
ConcOps ==
    {"is_trivial", "needs_stencil_reference", "is_read_only", "uses_color",
     "has_dynamic_offset", "VertexFormat::size", "TextureComponentType::from",
     "map_label"}

\* The shared values: the predicates' arguments in two variants, the
\* formats and the labelled descriptor in two variants.
SharedPredicateArgs ==
    {[compare |-> "Always",
      state |-> [format |-> "Depth32Float", depth_write_enabled |-> FALSE,
                 depth_compare |-> "Less",
                 stencil_front |-> StencilStateFaceDescriptor_IGNORE,
                 stencil_back |-> StencilStateFaceDescriptor_IGNORE,
                 stencil_read_mask |-> 255, stencil_write_mask |-> 0],
      blend |-> BlendDescriptor_REPLACE,
      entry |-> [binding |-> 0, visibility |-> ShaderStage_VERTEX,
                 ty |-> [variant |-> "Sampler", comparison |-> FALSE],
                 count |-> [some |-> FALSE]]],
     [compare |-> "Less",
      state |-> [format |-> "Depth24PlusStencil8",
                 depth_write_enabled |-> FALSE, depth_compare |-> "Always",
                 stencil_front |-> StencilStateFaceDescriptor_IGNORE,
                 stencil_back |-> [compare |-> "Less", fail_op |-> "Replace",
                                   depth_fail_op |-> "Zero",
                                   pass_op |-> "IncrementClamp"],
                 stencil_read_mask |-> 255, stencil_write_mask |-> 1],
      blend |-> [src_factor |-> "One", dst_factor |-> "BlendColor",
                 operation |-> "Max"],
      entry |-> [binding |-> 1, visibility |-> ShaderStage_COMPUTE,
                 ty |-> [variant |-> "StorageBuffer", dynamic |-> TRUE,
                         min_binding_size |-> [some |-> FALSE],
                         readonly |-> TRUE],
                 count |-> [some |-> FALSE]]]}

SharedFormatArgs ==
    {[vertex_format |-> "Uchar2", texture_format |-> "R8Unorm",
      buffer |-> WithLabel(BaseFields("BufferDescriptor"), 1)],
     [vertex_format |-> "Float3", texture_format |-> "Rgba32Sint",
      buffer |-> WithLabel(AltFields("BufferDescriptor"), MaxLabels)]}

SharedPool ==
    {[compare |-> p.compare, state |-> p.state, blend |-> p.blend,
      entry |-> p.entry, vertex_format |-> f.vertex_format,
      texture_format |-> f.texture_format, buffer |-> f.buffer] :
        p \in SharedPredicateArgs, f \in SharedFormatArgs}

\* The label functions a thread passes to map_label.
ConcFuns == {f \in LabelFuns : f = Identity \/ \A l \in Labels : f[l] = 1}

\* The field at a path of a value.
RECURSIVE Get(_, _)
Get(v, path) == IF path = <<>> THEN v ELSE Get(v[Head(path)], Tail(path))

\* The fields a function body reads, in evaluation order.
OpReads(op) ==
    CASE op = "is_trivial" -> << <<"compare">> >>
      [] op = "needs_stencil_reference" ->
            << <<"state", "stencil_front", "compare">>,
               <<"state", "stencil_back", "compare">> >>
      [] op = "is_read_only" ->
            << <<"state", "depth_write_enabled">>,
               <<"state", "stencil_write_mask">> >>
      [] op = "uses_color" ->
            << <<"blend", "src_factor">>, <<"blend", "dst_factor">> >>
      [] op = "has_dynamic_offset" -> << <<"entry", "ty">> >>
      [] op = "VertexFormat::size" -> << <<"vertex_format">> >>
      [] op = "TextureComponentType::from" -> << <<"texture_format">> >>
      [] op = "map_label" ->
            << <<"buffer", "label">>, <<"buffer", "size">>,
               <<"buffer", "usage">>, <<"buffer", "mapped_at_creation">> >>

\* Whether the body needs no further read: every field is read, or the
\* left operand of || or && has decided.
ReadsDone(op, locals) ==
    \/ Len(locals) = Len(OpReads(op))
    \/ op = "needs_stencil_reference" /\ Len(locals) = 1
          /\ ~is_trivial(locals[1])
    \/ op = "is_read_only" /\ Len(locals) = 1 /\ locals[1]

\* The value the body returns from the fields it has read.
ResultOf(op, fun, locals) ==
    CASE op = "is_trivial" -> is_trivial(locals[1])
      [] op = "needs_stencil_reference" ->
            IF ~is_trivial(locals[1]) THEN TRUE ELSE ~is_trivial(locals[2])
      [] op = "is_read_only" ->
            IF locals[1] THEN FALSE ELSE locals[2] = 0
      [] op = "uses_color" ->
            Match(uses_color_arms, <<locals[1], locals[2]>>).val
      [] op = "has_dynamic_offset" -> has_dynamic_offset([ty |-> locals[1]])
      [] op = "VertexFormat::size" -> VertexFormat_size(locals[1])
      [] op = "TextureComponentType::from" ->
            TextureComponentType_from(locals[1])
      [] op = "map_label" ->
            [label |-> fun[locals[1]], size |-> locals[2],
             usage |-> locals[3], mapped_at_creation |-> locals[4]]

IdleThread ==
    [pc |-> "idle", op |-> "none", fun |-> Identity, locals |-> <<>>,
     ret |-> <<>>]

InitConc ==
    /\ call = Idle
    /\ stage = "none"
    /\ kind = "none"
    /\ desc0 = <<>>
    /\ desc = <<>>
    /\ fun1 = <<>>
    /\ out1 = <<>>
    /\ fun2 = <<>>
    /\ out2 = <<>>
    /\ shared \in SharedPool
    /\ shared0 = shared
    /\ threads = [t \in Threads |-> IdleThread]

\* Thread t calls op on the shared values.
Begin(t, op, fun) ==
    /\ threads[t].pc = "idle"
    /\ threads' = [threads EXCEPT ![t] =
                      [pc |-> "running", op |-> op, fun |-> fun,
                       locals |-> <<>>, ret |-> <<>>]]
    /\ UNCHANGED <<call, labelVars, shared, shared0>>

\* A read that takes the label out of the shared descriptor and leaves the
\* first label in its place.
ReadField_TakesLabel(t) ==
    LET th == threads[t]
        path == OpReads(th.op)[Len(th.locals) + 1] IN
    /\ th.pc = "running"
    /\ ~ReadsDone(th.op, th.locals)
    /\ threads' = [threads EXCEPT ![t].locals = Append(@, Get(shared, path))]
    /\ shared' = IF path = <<"buffer", "label">>
                 THEN [shared EXCEPT !.buffer.label = 1]
                 ELSE shared
    /\ UNCHANGED <<call, labelVars, shared0>>

\* Thread t reads the next field its function needs, through &self.
ReadField(t) ==
    LET th == threads[t]
        path == OpReads(th.op)[Len(th.locals) + 1] IN
    /\ th.pc = "running"
    /\ ~ReadsDone(th.op, th.locals)
    /\ threads' = [threads EXCEPT ![t].locals = Append(@, Get(shared, path))]
    /\ UNCHANGED <<call, labelVars, shared, shared0>>

\* The function of thread t returns.
Finish(t) ==
    LET th == threads[t] IN
    /\ th.pc = "running"
    /\ ReadsDone(th.op, th.locals)
    /\ threads' = [threads EXCEPT ![t].pc = "done",
                                  ![t].ret = ResultOf(th.op, th.fun, th.locals)]
    /\ UNCHANGED <<call, labelVars, shared, shared0>>

\* Thread t has used the result; it may call again.
Reuse(t) ==
    /\ threads[t].pc = "done"
    /\ threads' = [threads EXCEPT ![t] = IdleThread]
    /\ UNCHANGED <<call, labelVars, shared, shared0>>

NextConc ==
    \/ \E t \in Threads : \E op \in ConcOps \ {"map_label"} :
          Begin(t, op, Identity)
    \/ \E t \in Threads : \E fun \in ConcFuns : Begin(t, "map_label", fun)
    \/ \E t \in Threads : ReadField(t)
    \/ \E t \in Threads : Finish(t)
    \/ \E t \in Threads : Reuse(t)

SpecConc == InitConc /\ [][NextConc]_vars

----------------------------------------------------------------------------
(* C1: for every Backend b, BackendBit::from(b) returns without failure a  *)
(* set holding exactly one backend flag, with bits 1 << tag(b).            *)
C1_FromIsTotalSingleton ==
    call.op = "BackendBit::from" =>
        /\ ~call.ret.panicked
        /\ call.ret.bits = 2 ^ BackendTag(call.backend)
        /\ PopCount(call.ret.bits) = 1

(* Field-wise comparison of two Limits values: every field of r is at     *)
(* most the same field of a.                                               *)
FieldwiseLe(r, a) == \A f \in Range(LimitsFields) : r[f] <= a[f]

(* Bitwise containment of two u64 sets: every bit set in r is set in a.    *)
BitwiseSubset(r, a) == \A i \in 0..63 : U64Bit(r, i) = 1 => U64Bit(a, i) = 1

(* C2: the comparison deciding whether requested Limits fit within         *)
(* advertised Limits (the ordering of the Limits record) is true iff       *)
(* requested.field <= advertised.field for every one of the ten fields.    *)
C2_LeIsFieldwise ==
    /\ Len(LimitsFields) = 10
    /\ call.op = "Limits::le" =>
        (call.ret <=> FieldwiseLe(call.requested, call.advertised))

(* C3: the Limits fit check is reflexive, and raising any single field of  *)
(* requested above the same field of advertised makes it false, whatever   *)
(* the other nine fields hold.                                             *)
C3_ReflexiveAntitonic ==
    call.op = "Limits::le" =>
        /\ call.requested = call.advertised => call.ret
        /\ call.raised # "none" => ~call.ret

(* C4: Features containment is bitwise: requested is a subset of           *)
(* advertised iff every bit set in requested is set in advertised, i.e.    *)
(* requested & advertised = requested; {PUSH_CONSTANTS} is no subset of    *)
(* the empty set and the empty set is a subset of every set.               *)
C4_ContainsIsBitwise ==
    call.op = "Features::contains" =>
        /\ call.ret <=> BitwiseSubset(call.requested, call.advertised)
        /\ call.ret <=> (U64And(call.requested, call.advertised) = call.requested)
        /\ (call.requested = PUSH_CONSTANTS /\ call.advertised = Features_empty)
              => ~call.ret
        /\ call.requested = Features_empty => call.ret

C4_Witness ==
    /\ call.op = "Features::contains"
    /\ call.requested = PUSH_CONSTANTS
    /\ call.advertised = Features_empty
    /\ call.ret = FALSE

(* C5: a device request is legal iff the requested Features are a subset   *)
(* of the advertised Features and the requested Limits fit, field by       *)
(* field, within the advertised Limits; every other request is a contract  *)
(* violation, never accepted.                                              *)
C5_LegalIffBothFit ==
    call.op = "request_device" =>
        /\ call.ret \in {"Device", "ContractViolation"}
        /\ call.ret = "Device" <=>
              /\ BitwiseSubset(call.reqFeatures, call.advFeatures)
              /\ FieldwiseLe(call.reqLimits, call.advLimits)

(* The fields of a descriptor other than its label.                       *)
OtherFields(d) == DOMAIN d \ {"label"}

(* r is d with its label replaced by f(d.label) and nothing else changed.  *)
IsProjection(r, d, f) ==
    /\ DOMAIN r = DOMAIN d
    /\ r.label = f[d.label]
    /\ \A x \in OtherFields(d) : r[x] = d[x]

(* C6: for every descriptor type with map_label, any descriptor d and any  *)
(* label function f, map_label(d, f) has label f(d.label) and every other  *)
(* field equal to the same-named field of d.                               *)
C6_MapLabelKeepsFields ==
    /\ stage \in {"mapped", "remapped"} => IsProjection(out1, desc, fun1)
    /\ stage = "remapped" => IsProjection(out2, out1, fun2)

C6_Witness ==
    /\ stage = "mapped"
    /\ kind = "SamplerDescriptor"
    /\ desc.mag_filter # desc.min_filter
    /\ out1.label # desc.label
    /\ out1.mag_filter = "Linear"

(* C7: map_label obeys the functor laws: projecting with f and then with g *)
(* equals projecting once with g after f, and projecting with the identity *)
(* gives the descriptor back.                                              *)
C7_FunctorLaws ==
    /\ stage = "remapped" => out2 = map_label(kind, desc, Compose(fun2, fun1))
    /\ (stage \in {"mapped", "remapped"} /\ fun1 = Identity) => out1 = desc

C7_Witness ==
    /\ stage = "remapped"
    /\ kind = "TextureDescriptor"
    /\ desc.sample_count # 1
    /\ fun1 # Identity
    /\ fun2 # Identity
    /\ Compose(fun2, fun1) # fun1
    /\ out2.label # desc.label

(* C8: after any sequence of map_label calls the descriptor they were      *)
(* applied to has every field, its label included, as it was built.        *)
C8_SelfUnchanged ==
    stage # "none" => desc = desc0

C8_Witness ==
    /\ stage = "remapped"
    /\ out1.label # desc.label
    /\ out2.label # out1.label
    /\ desc = desc0

(* C9: for each of the 30 VertexFormat variants, VertexFormat::size       *)
(* returns, without failure, one of 2, 4, 8, 12, 16.                       *)
C9_SizeInRange ==
    /\ Cardinality(VertexFormat) = 30
    /\ call.op = "VertexFormat::size" =>
        /\ call.ret.matched
        /\ call.ret.val \in {2, 4, 8, 12, 16}

C9_Witness ==
    /\ call.op = "VertexFormat::size"
    /\ call.format = "Float3"
    /\ call.ret = [matched |-> TRUE, val |-> 12]

(* C10: for each of the 38 TextureFormat variants,                         *)
(* TextureComponentType::from returns, without failure, exactly one of     *)
(* Float, Sint, Uint: one and only one arm of the match holds the format,  *)
(* so the same format always gets the same component type.                 *)
C10_FromIsTotal ==
    /\ Cardinality(TextureFormat) = 38
    /\ call.op = "TextureComponentType::from" =>
        /\ call.ret.matched
        /\ call.ret.val \in TextureComponentType
        /\ Cardinality({i \in 1..Len(TextureComponentType_from_arms) :
                           call.format \in TextureComponentType_from_arms[i].pat}) = 1

C10_Witness ==
    /\ call.op = "TextureComponentType::from"
    /\ call.format = "Depth24PlusStencil8"
    /\ call.ret = [matched |-> TRUE, val |-> "Float"]

(* C11: has_dynamic_offset(entry) is true iff entry.ty is UniformBuffer or *)
(* StorageBuffer with dynamic = true; it is false for Sampler,             *)
(* SampledTexture and StorageTexture, and nothing but the variant and its  *)
(* dynamic flag decides it.                                                *)
C11_DynamicOffsetIff ==
    call.op = "has_dynamic_offset" =>
        LET ty == call.entry.ty IN
        /\ call.ret <=>
              \/ ty.variant = "UniformBuffer" /\ ty.dynamic
              \/ ty.variant = "StorageBuffer" /\ ty.dynamic
        /\ ty.variant \in {"Sampler", "SampledTexture", "StorageTexture"}
              => ~call.ret

C11_Witness ==
    /\ call.op = "has_dynamic_offset"
    /\ call.entry.ty.variant = "StorageBuffer"
    /\ call.entry.ty.dynamic
    /\ call.entry.ty.readonly
    /\ call.entry.count.some
    /\ call.ret = TRUE

(* C12: is_trivial(c) is true iff c is Never or Always; it is false for    *)
(* the other seven variants, Undefined included.                           *)
C12_TrivialIff ==
    /\ Cardinality(CompareFunction) = 9
    /\ call.op = "is_trivial" =>
        /\ call.ret <=> call.compare \in {"Never", "Always"}
        /\ call.compare = "Undefined" => ~call.ret

C12_Witness ==
    /\ call.op = "is_trivial"
    /\ call.compare = "Never"
    /\ call.ret = TRUE

(* C13: needs_stencil_reference(state) is true iff the compare function   *)
(* of the front face or of the back face is neither Never nor Always; the  *)
(* stencil operations, the masks, the depth fields and the format do not   *)
(* enter the result.                                                       *)
C13_StencilReferenceIff ==
    call.op = "needs_stencil_reference" =>
        (call.ret <=>
            \/ call.state.stencil_front.compare \notin {"Never", "Always"}
            \/ call.state.stencil_back.compare \notin {"Never", "Always"})

C13_Witness ==
    /\ call.op = "needs_stencil_reference"
    /\ call.state.stencil_front.compare = "Always"
    /\ call.state.stencil_back.compare = "Less"
    /\ call.state.stencil_back.pass_op = "IncrementClamp"
    /\ call.state.stencil_write_mask = 1
    /\ call.ret = TRUE

C15_UsesColorIff ==
    /\ Cardinality(BlendFactor) = 13
    /\ call.op = "uses_color" =>
        /\ call.ret <=>
              \/ call.blend.src_factor \in {"BlendColor", "OneMinusBlendColor"}
              \/ call.blend.dst_factor \in {"BlendColor", "OneMinusBlendColor"}
        /\ call.blend = [src_factor |-> "BlendColor", dst_factor |-> "Zero",
                         operation |-> "Add"] => call.ret
        /\ call.blend = BlendDescriptor_REPLACE => ~call.ret

C15_Witness ==
    /\ call.op = "uses_color"
    /\ call.blend.src_factor = "One"
    /\ call.blend.dst_factor = "OneMinusBlendColor"
    /\ call.blend.operation = "Max"
    /\ call.ret = TRUE

\* The ranges of the list whose stages hold the stage bit.
RangesServing(ranges, bit) ==
    {i \in DOMAIN ranges : BitAnd(ranges[i].stages, bit) # 0}

(* C16: a list of PushConstantRanges is accepted only if each of the stage *)
(* bits VERTEX, FRAGMENT, COMPUTE is in the stages of at most one range;   *)
(* two ranges sharing a stage bit are an invalid descriptor, and a single  *)
(* range serving several stages is accepted.                               *)
C16_StageInAtMostOneRange ==
    call.op = "create_pipeline_layout" =>
        LET ranges == call.push_constant_ranges
            AtMostOne ==
                \A bit \in {ShaderStage_VERTEX, ShaderStage_FRAGMENT,
                            ShaderStage_COMPUTE} :
                    Cardinality(RangesServing(ranges, bit)) <= 1
        IN  /\ call.ret = "Ok" => AtMostOne
            /\ ~AtMostOne => call.ret = "InvalidDescriptor"
            /\ Len(ranges) = 1 => call.ret = "Ok"

C16_Witness ==
    /\ call.op = "create_pipeline_layout"
    /\ Len(call.push_constant_ranges) = 2
    /\ call.push_constant_ranges[1].stages =
           BitOr(ShaderStage_VERTEX, ShaderStage_FRAGMENT)
    /\ call.push_constant_ranges[2].stages = ShaderStage_VERTEX
    /\ call.ret = "InvalidDescriptor"

BitsOf(x) == {i \in 0 .. 30 : (x \div (2 ^ i)) % 2 = 1}

(* C18: the seven Backend variants have the tags Empty=0, Vulkan=1,        *)
(* Metal=2, Dx12=3, Dx11=4, Gl=5, BrowserWebGpu=6, pairwise distinct, and  *)
(* two different backends are never converted to the same BackendBit set.  *)
C18_TagsDistinctFromInjective ==
    /\ Cardinality(Backend) = 7
    /\ call.op = "BackendBit::from, twice" =>
        /\ BackendTag(call.a) =
              [Empty |-> 0, Vulkan |-> 1, Metal |-> 2, Dx12 |-> 3, Dx11 |-> 4,
               Gl |-> 5, BrowserWebGpu |-> 6][call.a]
        /\ call.a # call.b =>
              /\ BackendTag(call.a) # BackendTag(call.b)
              /\ ~ /\ ~call.ret_a.panicked
                   /\ ~call.ret_b.panicked
                   /\ call.ret_a.bits = call.ret_b.bits

C18_Witness ==
    /\ call.op = "BackendBit::from, twice"
    /\ call.a = "Dx11"
    /\ call.b = "Gl"
    /\ ~call.ret_a.panicked
    /\ ~call.ret_b.panicked
    /\ call.ret_a.bits # call.ret_b.bits

(* C19: PRIMARY is exactly VULKAN | METAL | DX12 | BROWSER_WEBGPU and      *)
(* SECONDARY exactly GL | DX11, each named flag being the single bit       *)
(* 1 << tag of its Backend.                                                *)
C19_PrimarySecondaryUnions ==
    call.op = "BackendBit::bits" =>
        LET TagsOf(bs) == {BackendTag(b) : b \in bs}
            Members ==
                [VULKAN |-> {"Vulkan"}, GL |-> {"Gl"}, METAL |-> {"Metal"},
                 DX12 |-> {"Dx12"}, DX11 |-> {"Dx11"},
                 BROWSER_WEBGPU |-> {"BrowserWebGpu"},
                 PRIMARY |-> {"Vulkan", "Metal", "Dx12", "BrowserWebGpu"},
                 SECONDARY |-> {"Gl", "Dx11"}]
        IN  BitsOf(call.ret) = TagsOf(Members[call.flag])

C19_Witness ==
    /\ call.op = "BackendBit::bits"
    /\ call.flag = "PRIMARY"
    /\ BitsOf(call.ret) = {1, 2, 3, 6}

\* The features documented as native-only.
NativeOnlyFeatures ==
    {MAPPABLE_PRIMARY_BUFFERS, SAMPLED_TEXTURE_BINDING_ARRAY,
     SAMPLED_TEXTURE_ARRAY_DYNAMIC_INDEXING,
     SAMPLED_TEXTURE_ARRAY_NON_UNIFORM_INDEXING, UNSIZED_BINDING_ARRAY,
     MULTI_DRAW_INDIRECT, MULTI_DRAW_INDIRECT_COUNT, PUSH_CONSTANTS}

(* C20: of the 64 bits of Features, ALL_WEBGPU is exactly bits 0..15 and   *)
(* ALL_NATIVE exactly bits 16..63; every native-only feature is contained  *)
(* in ALL_NATIVE and shares no bit with ALL_WEBGPU, and DEPTH_CLAMPING is  *)
(* contained in ALL_WEBGPU.                                                *)
C20_WebNativePartition ==
    /\ \A i \in 0 .. 63 :
          /\ U64Bit(ALL_WEBGPU, i) = 1 <=> i < 16
          /\ U64Bit(ALL_NATIVE, i) = 1 <=> i >= 16
    /\ call.op = "Features::contains" =>
        /\ (call.advertised = ALL_NATIVE /\ call.requested \in NativeOnlyFeatures)
              => call.ret
        /\ (call.advertised = ALL_WEBGPU /\ call.requested \in NativeOnlyFeatures)
              => /\ ~call.ret
                 /\ \A i \in 0 .. 63 : ~ /\ U64Bit(call.requested, i) = 1
                                         /\ U64Bit(call.advertised, i) = 1
        /\ (call.advertised = ALL_WEBGPU /\ call.requested = DEPTH_CLAMPING)
              => call.ret

C20_Witness ==
    /\ call.op = "Features::contains"
    /\ call.advertised = ALL_NATIVE
    /\ call.requested = MULTI_DRAW_INDIRECT_COUNT
    /\ call.ret = TRUE

(* C21: Limits::default() returns, for each of the ten fields, the        *)
(* default its doc comment states: 4, 8, 4, 16, 16, 4, 4, 12, 16384, 0 in  *)
(* declaration order.                                                      *)
C21_DefaultsAsDocumented ==
    call.op = "Limits::default" =>
        /\ DOMAIN call.ret = Range(LimitsFields)
        /\ \A f \in Range(LimitsFields) : call.ret[f] = Limits_documented[f]
        /\ <<4, 8, 4, 16, 16, 4, 4, 12, 16384, 0>> =
              [i \in 1 .. Len(LimitsFields) |-> call.ret[LimitsFields[i]]]

C21_Witness ==
    /\ call.op = "Limits::default"
    /\ call.ret.max_samplers_per_shader_stage = 16
    /\ call.ret.max_push_constant_size = 0

(* C22: the four alignment constants are COPY_BYTES_PER_ROW_ALIGNMENT =    *)
(* 256, BIND_BUFFER_ALIGNMENT = 256, COPY_BUFFER_ALIGNMENT = 4 and         *)
(* PUSH_CONSTANT_ALIGNMENT = 4.                                            *)
C22_AlignmentValues ==
    call.op = "alignment" =>
        call.ret = [COPY_BYTES_PER_ROW_ALIGNMENT |-> 256,
                    BIND_BUFFER_ALIGNMENT |-> 256,
                    COPY_BUFFER_ALIGNMENT |-> 4,
                    PUSH_CONSTANT_ALIGNMENT |-> 4][call.name]

C22_Witness ==
    /\ call.op = "alignment"
    /\ call.name = "COPY_BUFFER_ALIGNMENT"
    /\ call.ret = 4

(* C23: every closed enumeration gives each of its variants an explicit, *)
(* fixed small-integer tag, and no two variants of one enumeration share a *)
(* tag.                                                                    *)
C23_ExplicitDistinctTags ==
    call.op = "as u32" =>
        LET decls == EnumDeclarations[call.enum] IN
        /\ call.explicit
        /\ call.ret \in 0 .. 255
        /\ \A j \in 1 .. Len(decls) :
              j # call.index => Discriminant(decls, j) # call.ret

(* C24: every descriptor type that carries a debug label has the label's  *)
(* type as a type parameter and has the map_label projection;              *)
(* BindGroupDescriptor, BindGroupLayoutDescriptor and                      *)
(* RenderBundleEncoderDescriptor included.                                 *)
C24_EveryLabelledTypeProjects ==
    call.op = "map_label" =>
        /\ call.label_type = "L"
        /\ call.ret.resolved
        /\ call.ret.resolved => call.ret.label = call.fun[call.label]

\* What op returns when it is run alone on the values v.
RunAlone(op, fun, v) ==
    CASE op = "is_trivial" -> is_trivial(v.compare)
      [] op = "needs_stencil_reference" -> needs_stencil_reference(v.state)
      [] op = "is_read_only" -> is_read_only(v.state)
      [] op = "uses_color" -> uses_color(v.blend)
      [] op = "has_dynamic_offset" -> has_dynamic_offset(v.entry)
      [] op = "VertexFormat::size" -> VertexFormat_size(v.vertex_format)
      [] op = "TextureComponentType::from" ->
            TextureComponentType_from(v.texture_format)
      [] op = "map_label" -> BufferDescriptor_map_label(v.buffer, fun)

(* C25: with several threads evaluating the predicates and projections on *)
(* the same shared values without synchronization, under every             *)
(* interleaving each finished call has returned what it returns when run   *)
(* alone, and the shared values are as they were built.                    *)
C25_InterleavingFree ==
    /\ shared = shared0
    /\ \A t \in DOMAIN threads :
          threads[t].pc = "done" =>
              threads[t].ret = RunAlone(threads[t].op, threads[t].fun, shared0)

C25_Witness ==
    /\ DOMAIN threads = Threads
    /\ threads[1].pc = "done"
    /\ threads[1].op = "map_label"
    /\ threads[1].fun # Identity
    /\ threads[2].pc = "running"
    /\ threads[2].op = "map_label"
    /\ Len(threads[2].locals) = 2
    /\ shared.buffer.label = MaxLabels

\* The scenario of C26: both faces IGNORE, no depth write, write mask 0.
IgnoredStencilReadOnlyDepth(d) ==
    /\ d.stencil_front = StencilStateFaceDescriptor_IGNORE
    /\ d.stencil_back = StencilStateFaceDescriptor_IGNORE
    /\ d.depth_write_enabled = FALSE
    /\ d.stencil_write_mask = 0

(* C26: IGNORE, which is also the default face, has compare Always and    *)
(* the three operations Keep; a DepthStencilStateDescriptor with both      *)
(* faces IGNORE, depth_write_enabled false and stencil_write_mask 0 is     *)
(* read-only and needs no stencil reference, whatever its format,          *)
(* depth_compare and stencil_read_mask.                                    *)
C26_IgnoreScenario ==
    /\ StencilStateFaceDescriptor_default = StencilStateFaceDescriptor_IGNORE
    /\ StencilStateFaceDescriptor_IGNORE.compare = "Always"
    /\ \A f \in {"fail_op", "depth_fail_op", "pass_op"} :
          StencilStateFaceDescriptor_IGNORE[f] = "Keep"
    /\ (call.op = "is_read_only" /\ IgnoredStencilReadOnlyDepth(call.state))
          => call.ret = TRUE
    /\ (call.op = "needs_stencil_reference"
            /\ IgnoredStencilReadOnlyDepth(call.state))
          => call.ret = FALSE

C26_Witness ==
    /\ call.op = "needs_stencil_reference"
    /\ IgnoredStencilReadOnlyDepth(call.state)
    /\ call.state.format = "Depth24PlusStencil8"
    /\ call.state.depth_compare = "Less"
    /\ call.state.stencil_read_mask = 255
    /\ call.ret = FALSE

(* C27: only the low 8 bits of stencil_write_mask are used: is_read_only   *)
(* gives the same result for two descriptors that differ only in bits      *)
(* 8..31 of stencil_write_mask, so a mask with no bit among the low 8 is   *)
(* treated like mask 0.                                                    *)
C27_OnlyLow8BitsOfWriteMask ==
    call.op = "is_read_only" =>
        call.ret = is_read_only([call.state EXCEPT
                                    !.stencil_write_mask = @ % 256])

\* Bytes of one component, by the component's name.
BytesPerComponent(component) ==
    CASE component \in {"Char", "Uchar"} -> 1
      [] component \in {"Short", "Ushort", "Half"} -> 2
      [] component \in {"Float", "Uint", "Int"} -> 4

(* C28: for every VertexFormat variant, size() is the component count of   *)
(* its name (no digit: 1) times the bytes of its component type: 1 for     *)
(* Char and Uchar, 2 for Short, Ushort and Half, 4 for Float, Uint and     *)
(* Int; so Uchar2 = 2, Short4Norm = 8, Float3 = 12, Int4 = 16.             *)
C28_SizeIsCountTimesBytes ==
    /\ DOMAIN VertexFormatParts = VertexFormat
    /\ call.op = "VertexFormat::size" =>
        LET parts == VertexFormatParts[call.format] IN
        /\ call.ret.matched
        /\ call.ret.val = parts.count * BytesPerComponent(parts.component)
        /\ call.format = "Uchar2" => call.ret.val = 2
        /\ call.format = "Short4Norm" => call.ret.val = 8
        /\ call.format = "Float3" => call.ret.val = 12
        /\ call.format = "Int4" => call.ret.val = 16

C28_Witness ==
    /\ call.op = "VertexFormat::size"
    /\ call.format = "Short4Norm"
    /\ call.ret = [matched |-> TRUE, val |-> 8]

\* The formats whose doc comment gives the shader value t.
FormatsDocumented(t) ==
    {f \in TextureFormat : TextureFormatDocumented[f] = t}

(* C29: TextureComponentType::from follows the shader-visible type         *)
(* documented on each format: exactly the nine ...Uint formats give Uint,  *)
(* exactly the nine ...Sint formats give Sint, and the remaining twenty    *)
(* (Unorm, Snorm, Srgb, Float, packed and the three depth/stencil          *)
(* formats, Depth24PlusStencil8 among them) give Float.                    *)
C29_ComponentTypeAsDocumented ==
    /\ DOMAIN TextureFormatDocumented = TextureFormat
    /\ Cardinality(FormatsDocumented("Unsigned")) = 9
    /\ Cardinality(FormatsDocumented("Signed")) = 9
    /\ Cardinality(TextureFormat
                   \ (FormatsDocumented("Unsigned")
                      \cup FormatsDocumented("Signed"))) = 20
    /\ call.op = "TextureComponentType::from" =>
        /\ call.ret.matched
        /\ call.ret.val =
              CASE TextureFormatDocumented[call.format] = "Unsigned" -> "Uint"
                [] TextureFormatDocumented[call.format] = "Signed" -> "Sint"
                [] OTHER -> "Float"
        /\ call.format = "Depth24PlusStencil8" => call.ret.val = "Float"

C29_Witness ==
    /\ call.op = "TextureComponentType::from"
    /\ call.format = "Rg32Sint"
    /\ TextureFormatDocumented[call.format] = "Signed"
    /\ call.ret = [matched |-> TRUE, val |-> "Sint"]

(* C30: PRIMARY and SECONDARY share no bit and their union is the set of  *)
(* all defined backend flags; every Backend that has a flag (Vulkan,       *)
(* Metal, Dx12, Dx11, Gl, BrowserWebGpu) is in exactly one of the two      *)
(* tiers, and bit 0, the tag of Backend::Empty, is in neither.             *)
C30_TiersPartitionFlags ==
    /\ BitAnd(PRIMARY, SECONDARY) = 0
    /\ BitOr(PRIMARY, SECONDARY) = BackendBit_all
    /\ BitOr(PRIMARY, SECONDARY) =
          OrAll(<<VULKAN, GL, METAL, DX12, DX11, BROWSER_WEBGPU>>)
    /\ BitAnd(2 ^ BackendTag("Empty"), BitOr(PRIMARY, SECONDARY)) = 0
    /\ (call.op = "BackendBit::from" /\ call.backend # "Empty") =>
          LET InPrimary == BitAnd(call.ret.bits, PRIMARY) = call.ret.bits
              InSecondary == BitAnd(call.ret.bits, SECONDARY) = call.ret.bits
          IN  /\ ~call.ret.panicked
              /\ InPrimary # InSecondary

C30_Witness ==
    /\ call.op = "BackendBit::from"
    /\ call.backend = "Gl"
    /\ BitAnd(call.ret.bits, SECONDARY) = call.ret.bits
    /\ BitAnd(call.ret.bits, PRIMARY) = 0

====
